---- MODULE Spec2Model ----
(***************************************************************************)
(* A model of the almagest crate: the typed quantities of utils.rs         *)
(* (Meters, Kilometers, MetersSquared, MetersCubed, Eccentricity) and the  *)
(* conic geometry of kepler.rs (Ellipse, calc_2a, calc_2c, calc_ecc).      *)
(*                                                                         *)
(* Real = f64 is modelled by its IEEE 754 value classes: NaN, the two      *)
(* infinities, the two signed zeros, and the finite non-zero numbers.  A   *)
(* finite number is held exactly, as a + b*sqrt(r) with a, b rational and  *)
(* r square-free, so that libm's sqrt of a rational has an exact value.    *)
(* What is abstracted is the rounding of a finite result to 53 bits and    *)
(* the overflow of a finite result to an infinity; the special values and  *)
(* their propagation through + - * / sqrt < == follow IEEE 754.            *)
(***************************************************************************)
EXTENDS Integers, Sequences, FiniteSets, TLC

\* Bounds of the explored inputs: numerators and denominators of the
\* rational magnitudes handed to the library.
MaxNum == 3
MaxDen == 3

\* ------------------------------------------------------------------------
\* Exact rationals n/d, d > 0, in lowest terms.

Abs(i) == IF i < 0 THEN -i ELSE i

RECURSIVE GCD(_, _)
GCD(a, b) == IF b = 0 THEN a ELSE GCD(b, a % b)

RatNorm(n, d) ==
    LET g == GCD(Abs(n), Abs(d))
        sg == IF d < 0 THEN -1 ELSE 1
    IN  [n |-> (sg * n) \div g, d |-> (sg * d) \div g]

R0 == [n |-> 0, d |-> 1]
RAdd(p, q) == RatNorm(p.n * q.d + q.n * p.d, p.d * q.d)
RNeg(p) == [n |-> -p.n, d |-> p.d]
RSub(p, q) == RAdd(p, RNeg(q))
RMul(p, q) == RatNorm(p.n * q.n, p.d * q.d)
RInv(p) == RatNorm(p.d, p.n)
RSign(p) == IF p.n > 0 THEN 1 ELSE IF p.n < 0 THEN -1 ELSE 0

\* The sign of a + b*sqrt(r), r square-free and > 1 when b # 0.
QSign(a, b, r) ==
    IF b.n = 0 THEN RSign(a)
    ELSE IF a.n = 0 THEN RSign(b)
    ELSE IF RSign(a) = RSign(b) THEN RSign(a)
    ELSE IF RSign(RSub(RMul(a, a), RMul(RMul(b, b), [n |-> r, d |-> 1]))) > 0
         THEN RSign(a)
         ELSE RSign(b)

\* ------------------------------------------------------------------------
\* Real = f64 (utils.rs:5).  s is the sign bit as 1 or -1.

NaN == [ty |-> "Real", k |-> "nan", s |-> 1, a |-> R0, b |-> R0, r |-> 1]
Inf(s) == [ty |-> "Real", k |-> "inf", s |-> s, a |-> R0, b |-> R0, r |-> 1]
Zero(s) == [ty |-> "Real", k |-> "zero", s |-> s, a |-> R0, b |-> R0, r |-> 1]

\* The finite value a + b*sqrt(r); an exact zero result is +0.0, as a sum
\* of opposite finite numbers is under round-to-nearest.
Fin(a, b, r) ==
    IF a.n = 0 /\ b.n = 0 THEN Zero(1)
    ELSE [ty |-> "Real", k |-> "fin", s |-> QSign(a, b, r), a |-> a,
          b |-> b, r |-> IF b.n = 0 THEN 1 ELSE r]

Lit(n, d) == Fin(RatNorm(n, d), R0, 1)

IsNaN(x) == x.k = "nan"
IsRational(x) == x.k = "zero" \/ (x.k = "fin" /\ x.b.n = 0)

\* Two finite non-zero numbers lie in one field Q(sqrt r).
SameField(x, y) == x.b.n = 0 \/ y.b.n = 0 \/ x.r = y.r
FieldOf(x, y) == IF x.b.n # 0 THEN x.r ELSE y.r

F64Neg(x) ==
    IF IsNaN(x) THEN NaN
    ELSE [x EXCEPT !.s = -x.s, !.a = RNeg(x.a), !.b = RNeg(x.b)]

F64Add(x, y) ==
    CASE IsNaN(x) \/ IsNaN(y) -> NaN
      [] x.k = "inf" /\ y.k = "inf" -> IF x.s = y.s THEN x ELSE NaN
      [] x.k = "inf" /\ y.k # "inf" /\ ~IsNaN(y) -> x
      [] y.k = "inf" /\ x.k # "inf" /\ ~IsNaN(x) -> y
      [] x.k = "zero" /\ y.k = "zero" -> IF x.s = y.s THEN x ELSE Zero(1)
      [] x.k = "zero" /\ y.k = "fin" -> y
      [] x.k = "fin" /\ y.k = "zero" -> x
      [] x.k = "fin" /\ y.k = "fin" /\ SameField(x, y) ->
            Fin(RAdd(x.a, y.a), RAdd(x.b, y.b), FieldOf(x, y))

F64Sub(x, y) == F64Add(x, F64Neg(y))

F64Mul(x, y) ==
    CASE IsNaN(x) \/ IsNaN(y) -> NaN
      [] x.k = "inf" /\ y.k = "zero" -> NaN
      [] x.k = "zero" /\ y.k = "inf" -> NaN
      [] x.k = "inf" /\ y.k \in {"inf", "fin"} -> Inf(x.s * y.s)
      [] x.k = "fin" /\ y.k = "inf" -> Inf(x.s * y.s)
      [] x.k = "zero" /\ y.k \in {"zero", "fin"} -> Zero(x.s * y.s)
      [] x.k = "fin" /\ y.k = "zero" -> Zero(x.s * y.s)
      [] x.k = "fin" /\ y.k = "fin" /\ SameField(x, y) ->
            LET r == FieldOf(x, y)
            IN  Fin(RAdd(RMul(x.a, y.a), RMul(RMul(x.b, y.b), [n |-> r, d |-> 1])),
                    RAdd(RMul(x.a, y.b), RMul(x.b, y.a)), r)

\* 1 / (a + b*sqrt(r)) for a finite non-zero number: the conjugate over
\* the norm a*a - b*b*r.
F64Recip(y) ==
    LET nrm == RSub(RMul(y.a, y.a), RMul(RMul(y.b, y.b), [n |-> y.r, d |-> 1]))
    IN  Fin(RMul(y.a, RInv(nrm)), RMul(RNeg(y.b), RInv(nrm)), y.r)

F64Div(x, y) ==
    CASE IsNaN(x) \/ IsNaN(y) -> NaN
      [] x.k = "inf" /\ y.k = "inf" -> NaN
      [] x.k = "zero" /\ y.k = "zero" -> NaN
      [] x.k = "inf" /\ y.k \in {"zero", "fin"} -> Inf(x.s * y.s)
      [] x.k = "fin" /\ y.k = "zero" -> Inf(x.s * y.s)
      [] x.k \in {"zero", "fin"} /\ y.k = "inf" -> Zero(x.s * y.s)
      [] x.k = "zero" /\ y.k = "fin" -> Zero(x.s * y.s)
      [] x.k = "fin" /\ y.k = "fin" -> F64Mul(x, F64Recip(y))

\* x < y and x == y on f64: false whenever an operand is NaN; -0.0 == 0.0.
F64Lt(x, y) ==
    /\ ~IsNaN(x)
    /\ ~IsNaN(y)
    /\ LET d == F64Sub(x, y) IN d.k \in {"inf", "fin"} /\ d.s = -1

F64Eq(x, y) ==
    /\ ~IsNaN(x)
    /\ ~IsNaN(y)
    /\ (x = y \/ (x.k = "zero" /\ y.k = "zero"))

\* The largest k with k*k dividing m, searched upward from k.
RECURSIVE SquarePart(_, _, _)
SquarePart(m, k, best) ==
    IF k * k > m THEN best
    ELSE SquarePart(m, k + 1, IF m % (k * k) = 0 THEN k ELSE best)

\* libm::sqrt (kepler.rs:1).  For n/d in lowest terms, n = kn*kn*rn and
\* d = kd*kd*rd with rn, rd square-free and coprime, and
\* sqrt(n/d) = (kn / (kd*rd)) * sqrt(rn*rd).
\* NaN below zero; sqrt(-0.0) = -0.0; sqrt(+inf) = +inf.
F64Sqrt(x) ==
    CASE IsNaN(x) -> NaN
      [] x.k = "inf" -> IF x.s = 1 THEN x ELSE NaN
      [] x.k = "zero" -> x
      [] x.k = "fin" /\ x.s = -1 -> NaN
      [] x.k = "fin" /\ x.s = 1 /\ x.b.n = 0 ->
            LET kn == SquarePart(x.a.n, 1, 1)
                kd == SquarePart(x.a.d, 1, 1)
                rn == x.a.n \div (kn * kn)
                rd == x.a.d \div (kd * kd)
                q == RatNorm(kn, kd * rd)
            IN  IF rn * rd = 1 THEN Fin(q, R0, 1) ELSE Fin(R0, q, rn * rd)

\* ------------------------------------------------------------------------
\* utils.rs: the typed quantities.

Meters(v) == [ty |-> "Meters", v |-> v]
Kilometers(v) == [ty |-> "Kilometers", v |-> v]
MetersSquared(v) == [ty |-> "MetersSquared", v |-> v]
MetersCubed(v) == [ty |-> "MetersCubed", v |-> v]

Thousand == 1000
MetersZERO == Meters(Zero(1))
to_km(m) == Kilometers(F64Div(m.v, Lit(Thousand, 1)))
MetersValue(m) == m.v

MetersAdd(x, y) == Meters(F64Add(x.v, y.v))
MetersDivMeters(x, y) == F64Div(x.v, y.v)
MetersMulReal(x, k) == Meters(F64Mul(x.v, k))
\* A variant that guards the division: a zero divisor gives Meters::ZERO.
MetersDivRealGuarded(x, k) ==
    IF k.k = "zero" THEN MetersZERO ELSE Meters(F64Div(x.v, k))
MetersDivReal(x, k) == Meters(F64Div(x.v, k))
MetersMulMeters(x, y) == MetersSquared(F64Mul(x.v, y.v))
MetersSub(x, y) == Meters(F64Sub(x.v, y.v))
RealMulMeters(k, x) == Meters(F64Mul(k, x.v))

MetersSquaredAdd(x, y) == MetersSquared(F64Add(x.v, y.v))
MetersSquaredSub(x, y) == MetersSquared(F64Sub(x.v, y.v))
MetersSquaredMulReal(x, k) == MetersSquared(F64Mul(x.v, k))
MetersSquaredDivReal(x, k) == MetersSquared(F64Div(x.v, k))
\* A variant with the operands of the division exchanged.
MetersSquaredDivMetersInverted(x, y) == Meters(F64Div(y.v, x.v))
MetersSquaredDivMeters(x, y) == Meters(F64Div(x.v, y.v))
MetersMulMetersSquared(x, y) == MetersCubed(F64Mul(x.v, y.v))

\* Result<Eccentricity, &'static str> and the outcome of a call that may
\* unwind: the value returned, or the panic of Result::unwrap on an Err.
Ok(v) == [ty |-> "Ok", val |-> v]
Err(msg) == [ty |-> "Err", err |-> msg]
Returned(v) == [ty |-> "Returned", val |-> v]
Panicked(msg) == [ty |-> "Panicked", msg |-> msg]
Unwrap(res) == IF res.ty = "Ok" THEN Returned(res.val) ELSE Panicked(res.err)

Eccentricity(v) == [ty |-> "Eccentricity", v |-> v]

\* A variant that clamps the value into [0, 1].
EccentricityNewClamped(value) ==
    IF F64Lt(value, Zero(1))
    THEN Err("Eccentricity cannot be negative")
    ELSE IF F64Lt(Lit(1, 1), value)
         THEN Ok(Eccentricity(Lit(1, 1)))
         ELSE Ok(Eccentricity(value))

EccentricityNew(value) ==
    IF F64Lt(value, Zero(1))
    THEN Err("Eccentricity cannot be negative")
    ELSE Ok(Eccentricity(value))

EccentricityValue(e) == e.v

\* ------------------------------------------------------------------------
\* kepler.rs: Point, Ellipse and the free functions.

Point(x, y) == [ty |-> "Point", x |-> x, y |-> y]
Ellipse(e, f, r_p) == [ty |-> "Ellipse", e |-> e, f |-> f, r_p |-> r_p]

EllipseNew(e, f, r_p) == Ellipse(e, f, r_p)

\* A variant that stores the computed ratio without validating it.
from_periapsis_apoapsis_unvalidated(r_p, r_a, f) ==
    LET e == F64Div(F64Sub(MetersValue(r_a), MetersValue(r_p)),
                    F64Add(MetersValue(r_a), MetersValue(r_p)))
    IN  Returned(Ellipse(Eccentricity(e), f, r_p))

\* A variant that stores the apoapsis in the periapsis field.
from_periapsis_apoapsis_swapped(r_p, r_a, f) ==
    LET e == F64Div(F64Sub(MetersValue(r_a), MetersValue(r_p)),
                    F64Add(MetersValue(r_a), MetersValue(r_p)))
        made == Unwrap(EccentricityNew(e))
    IN  IF made.ty = "Returned"
        THEN Returned(Ellipse(made.val, f, r_a))
        ELSE made

from_periapsis_apoapsis(r_p, r_a, f) ==
    LET e == F64Div(F64Sub(MetersValue(r_a), MetersValue(r_p)),
                    F64Add(MetersValue(r_a), MetersValue(r_p)))
        made == Unwrap(EccentricityNew(e))
    IN  IF made.ty = "Returned"
        THEN Returned(Ellipse(made.val, f, r_p))
        ELSE made

eccentricity(self) == self.e
primary_focus(self) == self.f
periapsis(self) == self.r_p

\* A variant dividing by 1 + e.
semi_major_axis_plus(self) ==
    Meters(F64Div(self.r_p.v, F64Add(Lit(1, 1), self.e.v)))

semi_major_axis(self) ==
    MetersDivReal(periapsis(self),
                  F64Sub(Lit(1, 1), EccentricityValue(eccentricity(self))))

\* A variant that forgets the square root.
semi_minor_axis_nosqrt(self) ==
    Meters(F64Mul(F64Div(self.r_p.v, F64Sub(Lit(1, 1), self.e.v)),
                  F64Sub(Lit(1, 1), F64Mul(self.e.v, self.e.v))))

semi_minor_axis(self) ==
    Meters(F64Mul(MetersValue(semi_major_axis(self)),
                  F64Sqrt(F64Sub(Lit(1, 1),
                                 F64Mul(EccentricityValue(eccentricity(self)),
                                        EccentricityValue(eccentricity(self)))))))

flattening(self) ==
    LET a == MetersSub(semi_major_axis(self), semi_minor_axis(self))
    IN  MetersDivMeters(a, semi_major_axis(self))

\* A variant multiplying by 1 - e.
apoapsis_minus(self) ==
    Meters(F64Mul(F64Div(self.r_p.v, F64Sub(Lit(1, 1), self.e.v)),
                  F64Sub(Lit(1, 1), self.e.v)))

apoapsis(self) ==
    Meters(F64Mul(MetersValue(semi_major_axis(self)),
                  F64Add(Lit(1, 1), EccentricityValue(eccentricity(self)))))

\* A variant that adds the eccentricity to the semi-major axis.
focal_distance_sum(self) ==
    Meters(F64Add(EccentricityValue(eccentricity(self)),
                  MetersValue(semi_major_axis(self))))

focal_distance(self) ==
    Meters(F64Mul(EccentricityValue(eccentricity(self)),
                  MetersValue(semi_major_axis(self))))

\* A variant that adds the first radius to itself.
calc_2a_doubled(r_f, r_f_p) == MetersAdd(r_f, r_f)

calc_2a(r_f, r_f_p) == MetersAdd(r_f, r_f_p)

\* A variant without the comparison of the two radii.
calc_2c_unordered(r_f, r_f_p) == MetersSub(r_f, r_f_p)

calc_2c(r_f, r_f_p) ==
    IF F64Lt(MetersValue(r_f_p), MetersValue(r_f))
    THEN MetersSub(r_f, r_f_p)
    ELSE MetersSub(r_f_p, r_f)

calc_ecc(r_f, r_f_p) ==
    LET two_a == calc_2a(r_f, r_f_p)
        two_c == calc_2c(r_f, r_f_p)
        a == F64Div(MetersValue(two_a), Lit(2, 1))
        c == F64Div(MetersValue(two_c), Lit(2, 1))
    IN  Unwrap(EccentricityNew(F64Div(c, a)))

\* ------------------------------------------------------------------------
\* The inputs a caller hands to the library.

Rationals == {RatNorm(n, d) : n \in (-MaxNum)..MaxNum, d \in 1..MaxDen}
RealInputs == {Fin(q, R0, 1) : q \in Rationals} \cup {Zero(-1), Inf(1), Inf(-1), NaN}
MetersInputs == {Meters(v) : v \in RealInputs}
AreaInputs == {MetersSquared(v) : v \in RealInputs}
Foci == {Point(MetersZERO, MetersZERO), Point(Meters(Lit(1, 1)), Meters(Lit(1, 1)))}

\* ------------------------------------------------------------------------
\* A caller's run.  Every function of the crate is pure, so a run is one
\* call on fresh inputs, or the life of one Ellipse: an Eccentricity is
\* validated, the Ellipse is built from it (or from its two apsides), and
\* its queries are called in any order, any number of times.
\*   ell     the Ellipse the caller holds, or None
\*   ctor    the constructor call that built ell
\*   last    the latest call: its name, its arguments, what it returned
\*   status  "running", or "panicked" once a call has unwound
\*   memo    the first query made of ell, with what it returned

VARIABLES ell, ctor, last, status, memo

vars == <<ell, ctor, last, status, memo>>

None == [ty |-> "None"]
Call(op, args, res) == [op |-> op, args |-> args, res |-> res]

Init ==
    /\ ell = None
    /\ ctor = None
    /\ last = Call("init", <<>>, None)
    /\ status = "running"
    /\ memo = None

Fresh == status = "running" /\ last.op = "init"
Built == status = "running" /\ ell.ty = "Ellipse"

\* A call of a pure function that returns (of a run that is Fresh).
PureCall(op, args, res) ==
    /\ last' = Call(op, args, res)
    /\ UNCHANGED <<ell, ctor, status, memo>>

CallEccentricityNew ==
    /\ Fresh
    /\ \E v \in RealInputs : PureCall("Eccentricity::new", <<v>>, EccentricityNew(v))

CallEccentricityValue ==
    /\ status = "running"
    /\ last.op = "Eccentricity::new"
    /\ last.res.ty = "Ok"
    /\ last' = Call("Eccentricity::value", <<last.res.val>>,
                    EccentricityValue(last.res.val))
    /\ UNCHANGED <<ell, ctor, status, memo>>

CallEllipseNew ==
    /\ status = "running"
    /\ ell = None
    /\ last.op = "Eccentricity::new"
    /\ last.res.ty = "Ok"
    /\ \E f \in Foci, r_p \in MetersInputs :
        /\ ell' = EllipseNew(last.res.val, f, r_p)
        /\ ctor' = Call("Ellipse::new", <<last.res.val, f, r_p>>, ell')
        /\ last' = ctor'
        /\ UNCHANGED <<status, memo>>

CallFromPeriapsisApoapsis ==
    /\ Fresh
    /\ \E r_p \in MetersInputs, r_a \in MetersInputs, f \in Foci :
        LET out == from_periapsis_apoapsis(r_p, r_a, f)
        IN  /\ last' = Call("Ellipse::from_periapsis_apoapsis", <<r_p, r_a, f>>, out)
            /\ IF out.ty = "Returned"
               THEN /\ ell' = out.val
                    /\ ctor' = last'
                    /\ UNCHANGED <<status, memo>>
               ELSE /\ status' = "panicked"
                    /\ UNCHANGED <<ell, ctor, memo>>

\* A variant that caches the result in the periapsis field.
QueryCaching(op, res) ==
    /\ Built
    /\ last' = Call(op, <<ell>>, res)
    /\ memo' = IF memo = None THEN [op |-> op, res |-> res] ELSE memo
    /\ ell' = IF res.ty = "Meters" THEN [ell EXCEPT !.r_p = res] ELSE ell
    /\ UNCHANGED <<ctor, status>>

\* A query of the Ellipse: &self is read, nothing is written.
Query(op, res) ==
    /\ Built
    /\ last' = Call(op, <<ell>>, res)
    /\ memo' = IF memo = None THEN [op |-> op, res |-> res] ELSE memo
    /\ UNCHANGED <<ell, ctor, status>>

CallEccentricity == Query("eccentricity", eccentricity(ell))
CallPrimaryFocus == Query("primary_focus", primary_focus(ell))
CallPeriapsis == Query("periapsis", periapsis(ell))
CallSemiMajorAxis == Query("semi_major_axis", semi_major_axis(ell))
CallSemiMinorAxis == Query("semi_minor_axis", semi_minor_axis(ell))
CallFlattening == Query("flattening", flattening(ell))
CallApoapsis == Query("apoapsis", apoapsis(ell))
CallFocalDistance == Query("focal_distance", focal_distance(ell))

CallCalc2a ==
    /\ Fresh
    /\ \E r_f \in MetersInputs, r_f_p \in MetersInputs :
        PureCall("calc_2a", <<r_f, r_f_p>>, calc_2a(r_f, r_f_p))

CallCalc2c ==
    /\ Fresh
    /\ \E r_f \in MetersInputs, r_f_p \in MetersInputs :
        PureCall("calc_2c", <<r_f, r_f_p>>, calc_2c(r_f, r_f_p))

CallCalcEcc ==
    /\ Fresh
    /\ \E r_f \in MetersInputs, r_f_p \in MetersInputs :
        LET out == calc_ecc(r_f, r_f_p)
        IN  /\ last' = Call("calc_ecc", <<r_f, r_f_p>>, out)
            /\ status' = IF out.ty = "Returned" THEN "running" ELSE "panicked"
            /\ UNCHANGED <<ell, ctor, memo>>

\* The free functions applied to the two apsides of a newly built ellipse:
\* the caller evaluates self.periapsis() and self.apoapsis() and passes them.
AtApsides == Built /\ last = ctor

ApsidesCall(op, out) ==
    /\ last' = Call(op, <<periapsis(ell), apoapsis(ell)>>, out)
    /\ memo' = IF memo = None
               THEN [op |-> "periapsis", res |-> periapsis(ell)]
               ELSE memo
    /\ UNCHANGED <<ell, ctor>>

CallCalc2aAtApsides ==
    /\ AtApsides
    /\ ApsidesCall("calc_2a", calc_2a(periapsis(ell), apoapsis(ell)))
    /\ UNCHANGED status

CallCalc2cAtApsides ==
    /\ AtApsides
    /\ ApsidesCall("calc_2c", calc_2c(periapsis(ell), apoapsis(ell)))
    /\ UNCHANGED status

CallCalcEccAtApsides ==
    /\ AtApsides
    /\ LET out == calc_ecc(periapsis(ell), apoapsis(ell))
       IN  /\ ApsidesCall("calc_ecc", out)
           /\ status' = IF out.ty = "Returned" THEN "running" ELSE "panicked"

CallToKm ==
    /\ Fresh
    /\ \E m \in MetersInputs : PureCall("to_km", <<m>>, to_km(m))

CallMetersAdd ==
    /\ Fresh
    /\ \E x \in MetersInputs, y \in MetersInputs :
        PureCall("Meters+Meters", <<x, y>>, MetersAdd(x, y))
CallMetersSub ==
    /\ Fresh
    /\ \E x \in MetersInputs, y \in MetersInputs :
        PureCall("Meters-Meters", <<x, y>>, MetersSub(x, y))
CallMetersDivMeters ==
    /\ Fresh
    /\ \E x \in MetersInputs, y \in MetersInputs :
        PureCall("Meters/Meters", <<x, y>>, MetersDivMeters(x, y))
CallMetersMulReal ==
    /\ Fresh
    /\ \E x \in MetersInputs, k \in RealInputs :
        PureCall("Meters*Real", <<x, k>>, MetersMulReal(x, k))
CallMetersDivReal ==
    /\ Fresh
    /\ \E x \in MetersInputs, k \in RealInputs :
        PureCall("Meters/Real", <<x, k>>, MetersDivReal(x, k))
CallRealMulMeters ==
    /\ Fresh
    /\ \E k \in RealInputs, x \in MetersInputs :
        PureCall("Real*Meters", <<k, x>>, RealMulMeters(k, x))
CallMetersMulMeters ==
    /\ Fresh
    /\ \E x \in MetersInputs, y \in MetersInputs :
        PureCall("Meters*Meters", <<x, y>>, MetersMulMeters(x, y))
CallMetersMulMetersSquared ==
    /\ Fresh
    /\ \E x \in MetersInputs, y \in AreaInputs :
        PureCall("Meters*MetersSquared", <<x, y>>, MetersMulMetersSquared(x, y))
CallMetersSquaredAdd ==
    /\ Fresh
    /\ \E x \in AreaInputs, y \in AreaInputs :
        PureCall("MetersSquared+MetersSquared", <<x, y>>, MetersSquaredAdd(x, y))
CallMetersSquaredSub ==
    /\ Fresh
    /\ \E x \in AreaInputs, y \in AreaInputs :
        PureCall("MetersSquared-MetersSquared", <<x, y>>, MetersSquaredSub(x, y))
CallMetersSquaredMulReal ==
    /\ Fresh
    /\ \E x \in AreaInputs, k \in RealInputs :
        PureCall("MetersSquared*Real", <<x, k>>, MetersSquaredMulReal(x, k))
CallMetersSquaredDivReal ==
    /\ Fresh
    /\ \E x \in AreaInputs, k \in RealInputs :
        PureCall("MetersSquared/Real", <<x, k>>, MetersSquaredDivReal(x, k))
CallMetersSquaredDivMeters ==
    /\ Fresh
    /\ \E x \in AreaInputs, y \in MetersInputs :
        PureCall("MetersSquared/Meters", <<x, y>>, MetersSquaredDivMeters(x, y))

Next ==
    \/ CallEccentricityNew
    \/ CallEccentricityValue
    \/ CallEllipseNew
    \/ CallFromPeriapsisApoapsis
    \/ CallEccentricity
    \/ CallPrimaryFocus
    \/ CallPeriapsis
    \/ CallSemiMajorAxis
    \/ CallSemiMinorAxis
    \/ CallFlattening
    \/ CallApoapsis
    \/ CallFocalDistance
    \/ CallCalc2a
    \/ CallCalc2c
    \/ CallCalcEcc
    \/ CallCalc2aAtApsides
    \/ CallCalc2cAtApsides
    \/ CallCalcEccAtApsides
    \/ CallToKm
    \/ CallMetersAdd
    \/ CallMetersSub
    \/ CallMetersDivMeters
    \/ CallMetersMulReal
    \/ CallMetersDivReal
    \/ CallRealMulMeters
    \/ CallMetersMulMeters
    \/ CallMetersMulMetersSquared
    \/ CallMetersSquaredAdd
    \/ CallMetersSquaredSub
    \/ CallMetersSquaredMulReal
    \/ CallMetersSquaredDivReal
    \/ CallMetersSquaredDivMeters

Spec == Init /\ [][Next]_vars

\* ------------------------------------------------------------------------
\* The vocabulary of the properties.  These read a value's class, sign and
\* integer numerator and denominator directly, and use no f64 operation.

IsNumber(x) == x.k \in {"zero", "fin"}
IsPositive(x) == x.k \in {"fin", "inf"} /\ x.s = 1
IsNegative(x) == x.k \in {"fin", "inf"} /\ x.s = -1
IsNonNegative(x) == x.k = "zero" \/ IsPositive(x)
Num(x) == IF x.k = "zero" THEN 0 ELSE x.a.n
Den(x) == IF x.k = "zero" THEN 1 ELSE x.a.d
\* The rational number x equals n/d (d # 0).
IsRatio(x, n, d) == IsRational(x) /\ d # 0 /\ Num(x) * d = n * Den(x)
\* The number x lies in [0, 1).
InUnitInterval(x) == IsRational(x) /\ IsNonNegative(x) /\ Num(x) < Den(x)

NegativeMsg == "Eccentricity cannot be negative"
LastIs(op) == last.op = op
\* The eccentricity the latest call handed to Eccentricity::new.
HandedEccentricity ==
    CASE LastIs("Eccentricity::new") -> last.args[1]
      [] LastIs("Ellipse::from_periapsis_apoapsis") ->
            F64Div(F64Sub(last.args[2].v, last.args[1].v),
                   F64Add(last.args[2].v, last.args[1].v))
      [] LastIs("calc_ecc") ->
            F64Div(F64Div(calc_2c(last.args[1], last.args[2]).v, Lit(2, 1)),
                   F64Div(calc_2a(last.args[1], last.args[2]).v, Lit(2, 1)))
ConstructsEccentricity ==
    last.op \in {"Eccentricity::new", "Ellipse::from_periapsis_apoapsis", "calc_ecc"}

\* ------------------------------------------------------------------------
\* C1: Eccentricity::new(v) returns Ok holding exactly v (value() == v) for
\* every v >= 0, zero and every v >= 1 included, and returns
\* Err("Eccentricity cannot be negative") for every v < 0; the value is
\* never clamped or altered.
C1_EccentricityNewContract ==
    /\ LastIs("Eccentricity::new") =>
          LET v == last.args[1]
          IN  /\ IsNonNegative(v) =>
                    /\ last.res.ty = "Ok"
                    /\ last.res.val.ty = "Eccentricity"
                    /\ EccentricityValue(last.res.val) = v
              /\ IsNegative(v) => last.res = Err(NegativeMsg)
    /\ LastIs("Eccentricity::value") => last.res = last.args[1].v

C1_Witness ==
    /\ LastIs("Eccentricity::value")
    /\ last.res = Lit(3, 2)

\* C2 as stated: for every pair of lengths with apoapsis < periapsis, of any
\* signs, from_periapsis_apoapsis computes a negative eccentricity and
\* produces no Ellipse.
C2_Original ==
    LastIs("Ellipse::from_periapsis_apoapsis") =>
        LET r_p == last.args[1].v
            r_a == last.args[2].v
        IN  (IsNumber(r_p) /\ IsNumber(r_a) /\ F64Lt(r_a, r_p)) =>
                /\ IsNegative(HandedEccentricity)
                /\ last.res.ty = "Panicked"
                /\ ell = None

\* C2 amended: the same for lengths with apoapsis < periapsis whose sum is
\* not negative: the eccentricity computed is negative, Eccentricity::new
\* returns Err, and the unwrap panics with that reason: no Ellipse.
C2_NegativeEccentricityNoEllipse ==
    LastIs("Ellipse::from_periapsis_apoapsis") =>
        LET r_p == last.args[1].v
            r_a == last.args[2].v
        IN  (/\ IsNumber(r_p)
             /\ IsNumber(r_a)
             /\ F64Lt(r_a, r_p)
             /\ IsNonNegative(F64Add(r_a, r_p))) =>
                /\ IsNegative(HandedEccentricity)
                /\ last.res = Panicked(NegativeMsg)
                /\ ell = None
                /\ status = "panicked"

C2_Witness ==
    /\ LastIs("Ellipse::from_periapsis_apoapsis")
    /\ last.args[1] = Meters(Lit(2, 1))
    /\ last.args[2] = Meters(Lit(1, 1))
    /\ status = "panicked"
    /\ ell = None

\* C3 as stated: on every path that constructs an Eccentricity from a
\* negative value (Eccentricity::new, from_periapsis_apoapsis, calc_ecc) the
\* caller is returned the failure value with its reason, the same on the
\* three paths, and the program never panics.
C3_RecoverableFailure ==
    (ConstructsEccentricity /\ IsNegative(HandedEccentricity)) =>
        /\ last.res = Err(NegativeMsg)
        /\ status = "running"

\* C4: for lengths 0 < p < a and any focus f, the ellipse
\* from_periapsis_apoapsis(p, a, f) has periapsis() == p, apoapsis() == a,
\* semi_major_axis() == (p + a)/2 and eccentricity() == (a - p)/(a + p).
C4_RoundTrip ==
    (Built /\ ctor.op = "Ellipse::from_periapsis_apoapsis") =>
        LET p == ctor.args[1].v
            a == ctor.args[2].v
            pa == Num(p) * Den(a)
            ap == Num(a) * Den(p)
        IN  (IsNumber(p) /\ IsNumber(a) /\ IsPositive(p) /\ pa < ap) =>
                /\ ell.f = ctor.args[3]
                /\ LastIs("periapsis") => F64Eq(last.res.v, p)
                /\ LastIs("apoapsis") => F64Eq(last.res.v, a)
                /\ LastIs("semi_major_axis") =>
                      IsRatio(last.res.v, pa + ap, 2 * Den(p) * Den(a))
                /\ LastIs("eccentricity") =>
                      IsRatio(last.res.v, ap - pa, ap + pa)

C4_Witness ==
    /\ Built
    /\ ctor.op = "Ellipse::from_periapsis_apoapsis"
    /\ ctor.args[1] = Meters(Lit(2, 3))
    /\ ctor.args[2] = Meters(Lit(3, 2))
    /\ LastIs("apoapsis")
    /\ last.res = Meters(Lit(3, 2))

\* C5: for every ellipse built by Ellipse::new with eccentricity e in [0, 1)
\* and periapsis p > 0: semi_major_axis() == p / (1 - e),
\* periapsis() == semi_major_axis() * (1 - e) and
\* apoapsis() == semi_major_axis() * (1 + e).
C5_AxisRelations ==
    (Built /\ ctor.op = "Ellipse::new") =>
        LET e == ell.e.v
            p == ell.r_p.v
            a == semi_major_axis(ell).v
        IN  (InUnitInterval(e) /\ IsNumber(p) /\ IsPositive(p)) =>
                /\ LastIs("semi_major_axis") =>
                      IsRatio(last.res.v, Num(p) * Den(e),
                              Den(p) * (Den(e) - Num(e)))
                /\ LastIs("periapsis") =>
                      F64Eq(last.res.v, F64Mul(a, F64Sub(Lit(1, 1), e)))
                /\ LastIs("apoapsis") =>
                      F64Eq(last.res.v, F64Mul(a, F64Add(Lit(1, 1), e)))
                /\ LastIs("apoapsis") =>
                      IsRatio(last.res.v, Num(p) * (Den(e) + Num(e)),
                              Den(p) * (Den(e) - Num(e)))

C5_Witness ==
    /\ Built
    /\ ctor.op = "Ellipse::new"
    /\ ell.e = Eccentricity(Lit(1, 3))
    /\ ell.r_p = Meters(Lit(2, 1))
    /\ LastIs("semi_major_axis")
    /\ last.res = Meters(Lit(3, 1))

C7_Original ==
    (Built /\ F64Eq(ell.e.v, Lit(1, 1))) =>
        /\ LastIs("semi_major_axis") => last.res = Meters(Inf(1))
        /\ LastIs("apoapsis") => last.res = Meters(Inf(1))

\* C7 amended: the same for an ellipse with eccentricity exactly 1 and
\* periapsis > 0.
C7_ParabolicInfinite ==
    (Built /\ F64Eq(ell.e.v, Lit(1, 1)) /\ IsPositive(ell.r_p.v)) =>
        /\ LastIs("semi_major_axis") => last.res = Meters(Inf(1))
        /\ LastIs("apoapsis") => last.res = Meters(Inf(1))
        /\ status = "running"

C7_Witness ==
    /\ Built
    /\ ell.e = Eccentricity(Lit(1, 1))
    /\ ell.r_p = Meters(Lit(3, 1))
    /\ LastIs("apoapsis")
    /\ last.res = Meters(Inf(1))

\* C8: for focal radii r >= 0 and r' >= 0 with r + r' > 0, calc_ecc(r, r')
\* does not fail and returns the eccentricity |r - r'| / (r + r'), which is
\* non-negative and at most 1; calc_ecc(r', r) returns the same.
C8_CalcEcc ==
    LastIs("calc_ecc") =>
        LET r == last.args[1].v
            rp == last.args[2].v
            x == Num(r) * Den(rp)
            y == Num(rp) * Den(r)
        IN  (/\ IsNumber(r)
             /\ IsNumber(rp)
             /\ IsNonNegative(r)
             /\ IsNonNegative(rp)
             /\ x + y > 0) =>
                /\ status = "running"
                /\ last.res.ty = "Returned"
                /\ last.res.val.ty = "Eccentricity"
                /\ IsRatio(last.res.val.v, Abs(x - y), x + y)
                /\ IsNonNegative(last.res.val.v)
                /\ Num(last.res.val.v) <= Den(last.res.val.v)
                /\ calc_ecc(last.args[2], last.args[1]) = last.res

C8_Witness ==
    /\ LastIs("calc_ecc")
    /\ last.args = <<Meters(Lit(1, 2)), Meters(Lit(3, 1))>>
    /\ last.res = Returned(Eccentricity(Lit(5, 7)))

\* The type each infallible operation returns.
ReturnTy(op) ==
    CASE op \in {"Meters+Meters", "Meters-Meters", "Meters*Real", "Meters/Real",
                 "Real*Meters", "MetersSquared/Meters", "calc_2a", "calc_2c",
                 "periapsis", "semi_major_axis", "semi_minor_axis", "apoapsis",
                 "focal_distance"} -> "Meters"
      [] op \in {"Meters*Meters", "MetersSquared+MetersSquared",
                 "MetersSquared-MetersSquared", "MetersSquared*Real",
                 "MetersSquared/Real"} -> "MetersSquared"
      [] op = "Meters*MetersSquared" -> "MetersCubed"
      [] op = "to_km" -> "Kilometers"
      [] op \in {"Meters/Meters", "flattening", "Eccentricity::value"} -> "Real"
      [] op = "eccentricity" -> "Eccentricity"
      [] op = "primary_focus" -> "Point"
      [] op = "Ellipse::new" -> "Ellipse"
Quantities == {"Meters", "Kilometers", "MetersSquared", "MetersCubed", "Eccentricity"}

\* C9: constructing an Eccentricity from a negative value is the only
\* operation that can fail: a call ends in Err or in a panic only if it
\* handed a negative value to Eccentricity::new; every arithmetic operator,
\* to_km, Ellipse::new and every query returns a value of its type for every
\* input; a non-zero length divided by the scalar 0 is a signed infinity.
C9_OnlyNegativeEccentricityFails ==
    /\ (status = "panicked" \/ last.res.ty \in {"Err", "Panicked"}) =>
          /\ ConstructsEccentricity
          /\ IsNegative(HandedEccentricity)
    /\ (~ConstructsEccentricity /\ ~LastIs("init")) =>
          /\ status = "running"
          /\ last.res.ty = ReturnTy(last.op)
          /\ last.res.ty \in Quantities => last.res.v.ty = "Real"
    /\ LastIs("Meters/Real") =>
          LET x == last.args[1].v
              k == last.args[2]
          IN  ((IsNumber(x) \/ x.k = "inf") /\ x.k # "zero" /\ k.k = "zero") =>
                  last.res = Meters(Inf(x.s * k.s))

C9_Witness ==
    /\ LastIs("Meters/Real")
    /\ last.args = <<Meters(Lit(-3, 2)), Zero(1)>>
    /\ last.res = Meters(Inf(-1))

\* C10: for lengths x, y and an area A: x * y is an area of value x.y,
\* x * A is a volume of value x.A, A / y is a length of value A/y; hence
\* (x * y) / y gives the length x back when y # 0, and x * y == y * x.
C10_DimensionalClosure ==
    /\ LastIs("Meters*Meters") =>
          LET x == last.args[1]
              y == last.args[2]
          IN  /\ last.res.ty = "MetersSquared"
              /\ (IsNumber(x.v) /\ IsNumber(y.v)) =>
                    /\ IsRatio(last.res.v, Num(x.v) * Num(y.v), Den(x.v) * Den(y.v))
                    /\ F64Eq(MetersMulMeters(y, x).v, last.res.v)
                    /\ y.v.k # "zero" =>
                          /\ MetersSquaredDivMeters(last.res, y).ty = "Meters"
                          /\ F64Eq(MetersSquaredDivMeters(last.res, y).v, x.v)
    /\ LastIs("Meters*MetersSquared") =>
          LET x == last.args[1]
              A == last.args[2]
          IN  /\ last.res.ty = "MetersCubed"
              /\ (IsNumber(x.v) /\ IsNumber(A.v)) =>
                    IsRatio(last.res.v, Num(x.v) * Num(A.v), Den(x.v) * Den(A.v))
    /\ LastIs("MetersSquared/Meters") =>
          LET A == last.args[1]
              y == last.args[2]
          IN  /\ last.res.ty = "Meters"
              /\ (IsNumber(A.v) /\ IsNumber(y.v) /\ y.v.k # "zero") =>
                    IsRatio(last.res.v, Num(A.v) * Den(y.v), Den(A.v) * Num(y.v))

C10_Witness ==
    /\ LastIs("MetersSquared/Meters")
    /\ last.args = <<MetersSquared(Lit(3, 1)), Meters(Lit(2, 3))>>
    /\ last.res = Meters(Lit(9, 2))

\* C11: an Ellipse is immutable after construction: after any sequence of
\* queries its three stored fields are the values the constructor was given
\* (or computed), and a query returns what its first call returned: the
\* result is a function of the stored fields, and nothing is cached.
C11_Immutable ==
    Built =>
        /\ ctor.op = "Ellipse::new" =>
              /\ ell.e = ctor.args[1]
              /\ ell.f = ctor.args[2]
              /\ ell.r_p = ctor.args[3]
        /\ ctor.op = "Ellipse::from_periapsis_apoapsis" =>
              /\ ell = ctor.res.val
              /\ ell.r_p = ctor.args[1]
              /\ ell.f = ctor.args[3]
        /\ (memo # None /\ last.op = memo.op) => last.res = memo.res

\* The semi-major axis was the first query made; the state is the one after
\* that call and after every later call of it.
C11_Witness ==
    /\ Built
    /\ ctor.op = "Ellipse::new"
    /\ ell.e = Eccentricity(Lit(1, 2))
    /\ ell.r_p = Meters(Lit(3, 1))
    /\ memo # None
    /\ memo.op = "semi_major_axis"
    /\ LastIs("semi_major_axis")
    /\ last.res = Meters(Lit(6, 1))

\* The held ellipse has a finite periapsis p > 0 and an eccentricity in [0, 1).
Elliptic ==
    /\ Built
    /\ IsNumber(ell.r_p.v)
    /\ IsPositive(ell.r_p.v)
    /\ InUnitInterval(ell.e.v)

\* C12: for a periapsis p > 0 and an eccentricity in [0, 1) the semi-major
\* and the semi-minor axis are positive and finite and the apoapsis is
\* finite; the apoapsis exceeds the periapsis when e > 0; for the circle
\* (e = 0) the periapsis, the apoapsis and the two semi-axes are equal and
\* the focal distance is 0.
C12_EllipticGeometry ==
    Elliptic =>
        LET e == ell.e.v
            p == ell.r_p.v
            circle == e.k = "zero"
        IN  /\ LastIs("semi_major_axis") =>
                  /\ IsNumber(last.res.v)
                  /\ IsPositive(last.res.v)
                  /\ circle => F64Eq(last.res.v, p)
            /\ LastIs("semi_minor_axis") =>
                  /\ IsNumber(last.res.v)
                  /\ IsPositive(last.res.v)
                  /\ circle => F64Eq(last.res.v, p)
            /\ LastIs("apoapsis") =>
                  /\ IsNumber(last.res.v)
                  /\ IsPositive(e) => F64Lt(p, last.res.v)
                  /\ circle => F64Eq(last.res.v, p)
            /\ LastIs("periapsis") => F64Eq(last.res.v, p)
            /\ LastIs("focal_distance") =>
                  (circle => F64Eq(last.res.v, Zero(1)))

\* The focal distance of a circle of radius 2 was asked for.
C12_Witness ==
    /\ Elliptic
    /\ ell.e = Eccentricity(Zero(1))
    /\ ell.r_p = Meters(Lit(2, 1))
    /\ LastIs("focal_distance")
    /\ last.res = Meters(Zero(1))

\* The last call was op applied to the periapsis and the apoapsis of the
\* held ellipse.
LastAtApsides(op) ==
    /\ LastIs(op)
    /\ last.args = <<periapsis(ell), apoapsis(ell)>>

Twice(m) == F64Mul(Lit(2, 1), MetersValue(m))

====
